---- MODULE Spec2Model ----
(***************************************************************************)
(* A model of the Grumpy assembler: the instruction-set data model and its *)
(* text rendering / parsing / byte encoding (grumpy/src/isa.rs), the       *)
(* two-pass assembler (grumpy/src/assemble.rs) and the command-line driver *)
(* (assem/src/main.rs).                                                    *)
(*                                                                         *)
(* Text is modelled as sequences of one-character strings. A u32 is the    *)
(* record [hi, lo] of its two 16-bit halves (value = hi * 65536 + lo), so  *)
(* that the whole 32-bit range is represented; an i32 is an integer in     *)
(* -2^31 .. 2^31 - 1. A Result is a record whose field kind is "Ok", "Err" *)
(* or "Panic" (an unwrap, an expect or an index out of bounds).            *)
(***************************************************************************)
EXTENDS Integers, Sequences, FiniteSets, TLC

----------------------------------------------------------------------------
(* Bounds of the model. *)

\* Longest input file, in lines, that the command-line run reads.
MaxLines == 3

\* Longest pseudo-instruction program handed directly to assemble.
MaxProg == 4

----------------------------------------------------------------------------
(* Characters and 32-bit numbers. *)

Digits == <<"0", "1", "2", "3", "4", "5", "6", "7", "8", "9">>

DigitChars == {Digits[i] : i \in 1..10}

LetterChars ==
    {"a","b","c","d","e","f","g","h","i","j","k","l","m",
     "n","o","p","q","r","s","t","u","v","w","x","y","z",
     "A","B","C","D","E","F","G","H","I","J","K","L","M",
     "N","O","P","Q","R","S","T","U","V","W","X","Y","Z"}

\* char::is_ascii_alphanumeric
is_ascii_alphanumeric(c) == c \in DigitChars \cup LetterChars

\* char::is_whitespace, on the characters the model uses
is_whitespace(c) == c \in {" ", "\t"}

DigitValue(c) == (CHOOSE i \in 1..10 : Digits[i] = c) - 1

\* 2^16: a u32 is kept as two halves of 16 bits.
Half == 256 * 256

\* i32::MIN
I32Min == -((Half \div 2 - 1) * Half + (Half - 1)) - 1

\* The u32 whose value is the natural number n (n < 2^31).
U32(n) == [hi |-> n \div Half, lo |-> n % Half]

U32Succ(u) == IF u.lo = Half - 1 THEN [hi |-> u.hi + 1, lo |-> 0]
              ELSE [hi |-> u.hi, lo |-> u.lo + 1]

U32Zero == U32(0)

U32MaxValue == [hi |-> Half - 1, lo |-> Half - 1]

\* The decimal digits of a u32, most significant first (as "{}" prints it).
RECURSIVE DisplayU32(_)
DisplayU32(u) ==
    LET rest == (u.hi % 10) * Half + u.lo
        q    == [hi |-> u.hi \div 10, lo |-> rest \div 10]
        d    == Digits[(rest % 10) + 1]
    IN  IF q = U32Zero THEN <<d>> ELSE DisplayU32(q) \o <<d>>

\* "{}" of an i32: a minus sign and the magnitude for a negative value.
DisplayI32(i) ==
    IF i < 0 THEN <<"-">> \o DisplayU32(U32Succ(U32(-(i + 1))))
    ELSE DisplayU32(U32(i))

\* Accumulate decimal digits into a u32 with checked arithmetic:
\* the string position k, the accumulator acc; "Err" on a character that
\* is not a digit or on overflow past 2^32 - 1.
RECURSIVE ParseDigits(_, _, _)
ParseDigits(s, k, acc) ==
    IF k > Len(s) THEN [kind |-> "Ok", u |-> acc]
    ELSE IF s[k] \notin DigitChars THEN [kind |-> "Err", msg |-> "ParseIntError"]
    ELSE LET lo10 == acc.lo * 10 + DigitValue(s[k])
             hi10 == acc.hi * 10 + (lo10 \div Half)
         IN  IF hi10 >= Half THEN [kind |-> "Err", msg |-> "ParseIntError"]
             ELSE ParseDigits(s, k + 1, [hi |-> hi10, lo |-> lo10 % Half])

\* str::parse::<u32>: an optional "+", then at least one digit.
ParseU32(s) ==
    IF s = <<>> THEN [kind |-> "Err", msg |-> "ParseIntError"]
    ELSE IF s[1] = "+"
         THEN IF Len(s) = 1 THEN [kind |-> "Err", msg |-> "ParseIntError"]
              ELSE ParseDigits(s, 2, U32Zero)
         ELSE IF s = <<"-">> THEN [kind |-> "Err", msg |-> "ParseIntError"]
              ELSE ParseDigits(s, 1, U32Zero)

\* str::parse::<i32>: an optional "+" or "-", then at least one digit;
\* "Err" when the value leaves -2^31 .. 2^31 - 1.
ParseI32(s) ==
    IF s = <<>> THEN [kind |-> "Err", msg |-> "ParseIntError"]
    ELSE IF s[1] \in {"+", "-"} /\ Len(s) = 1
         THEN [kind |-> "Err", msg |-> "ParseIntError"]
    ELSE LET neg == s[1] = "-"
             mag == ParseDigits(s, IF s[1] \in {"+", "-"} THEN 2 ELSE 1, U32Zero)
         IN  IF mag.kind = "Err" THEN mag
             ELSE IF mag.u.hi < Half \div 2
                  THEN [kind |-> "Ok",
                        i |-> IF neg THEN -(mag.u.hi * Half + mag.u.lo)
                              ELSE mag.u.hi * Half + mag.u.lo]
             ELSE IF neg /\ mag.u.hi = Half \div 2 /\ mag.u.lo = 0
                  THEN [kind |-> "Ok", i |-> I32Min]
             ELSE [kind |-> "Err", msg |-> "ParseIntError"]

\* str::split_whitespace: the maximal runs of non-whitespace characters.
RECURSIVE SplitFrom(_, _, _, _)
SplitFrom(s, k, cur, acc) ==
    IF k > Len(s) THEN (IF cur = <<>> THEN acc ELSE Append(acc, cur))
    ELSE IF is_whitespace(s[k])
         THEN SplitFrom(s, k + 1, <<>>, IF cur = <<>> THEN acc ELSE Append(acc, cur))
         ELSE SplitFrom(s, k + 1, Append(cur, s[k]), acc)

split_whitespace(s) == SplitFrom(s, 1, <<>>, <<>>)

----------------------------------------------------------------------------
(* The data model: Val, Instr, PInstr, Unop, Binop. *)

Vunit == [tag |-> "Vunit"]

Vi32(i) == [tag |-> "Vi32", i |-> i]

Vbool(b) == [tag |-> "Vbool", b |-> b]

Vloc(u) == [tag |-> "Vloc", u |-> u]

Vundef == [tag |-> "Vundef"]

Vsize(i) == [tag |-> "Vsize", i |-> i]

Vaddr(a) == [tag |-> "Vaddr", a |-> a]

Push(v) == [op |-> "Push", v |-> v]

Pop == [op |-> "Pop"]

Peek(u) == [op |-> "Peek", u |-> u]

Unary(o) == [op |-> "Unary", unop |-> o]

Binary(b) == [op |-> "Binary", binop |-> b]

Swap == [op |-> "Swap"]

Alloc == [op |-> "Alloc"]

Set == [op |-> "Set"]

Get == [op |-> "Get"]

Var(u) == [op |-> "Var", u |-> u]

Store(u) == [op |-> "Store", u |-> u]

SetFrame(u) == [op |-> "SetFrame", u |-> u]

Call == [op |-> "Call"]

Ret == [op |-> "Ret"]

Branch == [op |-> "Branch"]

Halt == [op |-> "Halt"]

PLabel(l) == [p |-> "PLabel", label |-> l]

PPush(l) == [p |-> "PPush", label |-> l]

PI(i) == [p |-> "PI", instr |-> i]

Unops == {"Neg"}

Binops == {"Add", "Mul", "Sub", "Div", "Lt", "Eq"}

----------------------------------------------------------------------------
(* Display: rendering to text. A formatter result is Ok with the text or  *)
(* Err (fmt::Error); to_string panics on Err.                              *)

FmtOk(s) == [kind |-> "Ok", text |-> s]

FmtErr == [kind |-> "Err", msg |-> "fmt::Error"]

DisplayUnop(o) == <<"n", "e", "g">>

DisplayBinop(b) ==
    CASE b = "Add" -> <<"+">>
      [] b = "Mul" -> <<"*">>
      [] b = "Sub" -> <<"-">>
      [] b = "Div" -> <<"/">>
      [] b = "Lt"  -> <<"<">>
      [] b = "Eq"  -> <<"=", "=">>

DisplayVal(v) ==
    CASE v.tag = "Vunit"  -> FmtOk(<<"t", "t">>)
      [] v.tag = "Vi32"   -> FmtOk(DisplayI32(v.i))
      [] v.tag = "Vbool"  -> FmtOk(IF v.b THEN <<"t", "r", "u", "e">>
                                   ELSE <<"f", "a", "l", "s", "e">>)
      [] v.tag = "Vloc"   -> FmtOk(DisplayU32(v.u))
      [] v.tag = "Vundef" -> FmtOk(<<"u", "n", "d", "e", "f">>)
      [] OTHER            -> FmtErr

DisplayInstr(i) ==
    CASE i.op = "Push" ->
            LET r == DisplayVal(i.v)
            IN  IF r.kind = "Ok" THEN FmtOk(<<"p", "u", "s", "h", " ">> \o r.text)
                ELSE r
      [] i.op = "Pop"      -> FmtOk(<<"p", "o", "p">>)
      [] i.op = "Peek"     -> FmtOk(<<"p", "e", "e", "k", " ">> \o DisplayU32(i.u))
      [] i.op = "Unary"    -> FmtOk(<<"u", "n", "a", "r", "y", " ">> \o DisplayUnop(i.unop))
      [] i.op = "Binary"   -> FmtOk(<<"b", "i", "n", "a", "r", "y", " ">> \o DisplayBinop(i.binop))
      [] i.op = "Swap"     -> FmtOk(<<"s", "w", "a", "p">>)
      [] i.op = "Alloc"    -> FmtOk(<<"a", "l", "l", "o", "c">>)
      [] i.op = "Set"      -> FmtOk(<<"s", "e", "t">>)
      [] i.op = "Get"      -> FmtOk(<<"g", "e", "t">>)
      [] i.op = "Var"      -> FmtOk(<<"v", "a", "r", " ">> \o DisplayU32(i.u))
      [] i.op = "Store"    -> FmtOk(<<"s", "t", "o", "r", "e", " ">> \o DisplayU32(i.u))
      [] i.op = "SetFrame" -> FmtOk(<<"s", "e", "t", "f", "r", "a", "m", "e", " ">> \o DisplayU32(i.u))
      [] i.op = "Call"     -> FmtOk(<<"c", "a", "l", "l">>)
      [] i.op = "Ret"      -> FmtOk(<<"r", "e", "t">>)
      [] i.op = "Branch"   -> FmtOk(<<"b", "r", "a", "n", "c", "h">>)
      [] i.op = "Halt"     -> FmtOk(<<"h", "a", "l", "t">>)

DisplayPInstr(pi) ==
    CASE pi.p = "PLabel" -> FmtOk(pi.label \o <<":">>)
      [] pi.p = "PPush"  -> FmtOk(<<"p", "u", "s", "h", " ">> \o pi.label)
      [] pi.p = "PI"     -> DisplayInstr(pi.instr)

\* ToString::to_string: the Display text, or a panic when Display fails.
to_string(r) == IF r.kind = "Ok" THEN r ELSE [kind |-> "Panic"]

----------------------------------------------------------------------------
(* FromStr: parsing text. *)

Err(m) == [kind |-> "Err", msg |-> m]

Panic == [kind |-> "Panic"]

UnopFromStr(s) ==
    IF s = <<"n", "e", "g">> THEN [kind |-> "Ok", unop |-> "Neg"]
    ELSE Err("Unop Parse Error")

BinopFromStr(s) ==
    CASE s = <<"+">>      -> [kind |-> "Ok", binop |-> "Add"]
      [] s = <<"*">>      -> [kind |-> "Ok", binop |-> "Mul"]
      [] s = <<"-">>      -> [kind |-> "Ok", binop |-> "Sub"]
      [] s = <<"/">>      -> [kind |-> "Ok", binop |-> "Div"]
      [] s = <<"<">>      -> [kind |-> "Ok", binop |-> "Lt"]
      [] s = <<"=", "=">> -> [kind |-> "Ok", binop |-> "Eq"]
      [] OTHER            -> Err("Binop Parse Error")

\* ValFromStr trying the unsigned parse before the signed one.
ValFromStr_UnsignedFirst(s) ==
    CASE s = <<"t", "t">>                -> [kind |-> "Ok", val |-> Vunit]
      [] s = <<"u", "n", "d", "e", "f">> -> [kind |-> "Ok", val |-> Vundef]
      [] s = <<"t", "r", "u", "e">>      -> [kind |-> "Ok", val |-> Vbool(TRUE)]
      [] s = <<"f", "a", "l", "s", "e">> -> [kind |-> "Ok", val |-> Vbool(FALSE)]
      [] OTHER ->
            LET ri == ParseI32(s)
                ru == ParseU32(s)
            IN  IF ru.kind = "Ok" THEN [kind |-> "Ok", val |-> Vloc(ru.u)]
                ELSE IF ri.kind = "Ok" THEN [kind |-> "Ok", val |-> Vi32(ri.i)]
                ELSE Err("Val Parse Error")

ValFromStr(s) ==
    CASE s = <<"t", "t">>                -> [kind |-> "Ok", val |-> Vunit]
      [] s = <<"u", "n", "d", "e", "f">> -> [kind |-> "Ok", val |-> Vundef]
      [] s = <<"t", "r", "u", "e">>      -> [kind |-> "Ok", val |-> Vbool(TRUE)]
      [] s = <<"f", "a", "l", "s", "e">> -> [kind |-> "Ok", val |-> Vbool(FALSE)]
      [] OTHER ->
            LET ri == ParseI32(s)
                ru == ParseU32(s)
            IN  IF ri.kind = "Ok" THEN [kind |-> "Ok", val |-> Vi32(ri.i)]
                ELSE IF ru.kind = "Ok" THEN [kind |-> "Ok", val |-> Vloc(ru.u)]
                ELSE Err("Val Parse Error")

\* An instruction whose operand is split[1].parse::<u32>()?
U32Operand(split, op) ==
    IF Len(split) < 2 THEN Panic
    ELSE LET r == ParseU32(split[2])
         IN  IF r.kind = "Ok" THEN [kind |-> "Ok", instr |-> [op |-> op, u |-> r.u]]
             ELSE r

InstrFromStr(s) ==
    LET split == split_whitespace(s)
        m     == split[1]
    IN  IF split = <<>> THEN Panic
        ELSE CASE m = <<"p", "u", "s", "h">> ->
                    IF Len(split) < 2 THEN Panic
                    ELSE LET r == ValFromStr(split[2])
                         IN  IF r.kind = "Ok"
                             THEN [kind |-> "Ok", instr |-> Push(r.val)]
                             ELSE r
               [] m = <<"p", "o", "p">> -> [kind |-> "Ok", instr |-> Pop]
               [] m = <<"p", "e", "e", "k">> -> U32Operand(split, "Peek")
               [] m = <<"u", "n", "a", "r", "y">> ->
                    IF Len(split) < 2 THEN Panic
                    ELSE LET r == UnopFromStr(split[2])
                         IN  IF r.kind = "Ok"
                             THEN [kind |-> "Ok", instr |-> Unary(r.unop)]
                             ELSE Panic
               [] m = <<"b", "i", "n", "a", "r", "y">> ->
                    IF Len(split) < 2 THEN Panic
                    ELSE LET r == BinopFromStr(split[2])
                         IN  IF r.kind = "Ok"
                             THEN [kind |-> "Ok", instr |-> Binary(r.binop)]
                             ELSE Panic
               [] m = <<"s", "w", "a", "p">> -> [kind |-> "Ok", instr |-> Swap]
               [] m = <<"a", "l", "l", "o", "c">> -> [kind |-> "Ok", instr |-> Alloc]
               [] m = <<"s", "e", "t">> -> [kind |-> "Ok", instr |-> Set]
               [] m = <<"g", "e", "t">> -> [kind |-> "Ok", instr |-> Get]
               [] m = <<"v", "a", "r">> -> U32Operand(split, "Var")
               [] m = <<"s", "t", "o", "r", "e">> -> U32Operand(split, "Store")
               [] m = <<"s", "e", "t", "f", "r", "a", "m", "e">> ->
                    U32Operand(split, "SetFrame")
               [] m = <<"c", "a", "l", "l">> -> [kind |-> "Ok", instr |-> Call]
               [] m = <<"r", "e", "t">> -> [kind |-> "Ok", instr |-> Ret]
               [] m = <<"b", "r", "a", "n", "c", "h">> -> [kind |-> "Ok", instr |-> Branch]
               [] m = <<"h", "a", "l", "t">> -> [kind |-> "Ok", instr |-> Halt]
               [] OTHER -> Err("Instr Parse Error")

\* The loop of parse_label from character k on (the source's index k - 1).
RECURSIVE LabelLoop(_, _)
LabelLoop(s, k) ==
    IF k > Len(s) THEN [kind |-> "Ok", label |-> s]
    ELSE IF k = 1 /\ s[k] # "L" /\ s[k] # "_" THEN Err("ParseLabel Error")
    ELSE IF k = 1 /\ s[k] # "L" /\ Len(s) < 2 THEN Panic
    ELSE IF k = 1 /\ s[k] # "L" /\ s[2] # "L" THEN Err("ParseLabel Error")
    ELSE IF k = Len(s) /\ s[k] = ":"
         THEN [kind |-> "Ok", label |-> SubSeq(s, 1, Len(s) - 1)]
    ELSE IF k # 1 /\ ~is_ascii_alphanumeric(s[k]) THEN Err("ParseLabel Error")
    ELSE LabelLoop(s, k + 1)

parse_label(s) ==
    IF Len(split_whitespace(s)) # 1
    THEN Err("Parse Label Error, Too little or too many inputs")
    ELSE LabelLoop(s, 1)

\* The arm shared by both branches of PInstr::from_str: the token tok is a
\* label, which makes the pseudo-instruction of variant p, or the whole line
\* s is a native instruction.
LabelOrInstr(s, tok, p) ==
    LET l == parse_label(tok)
        i == InstrFromStr(s)
    IN  CASE l.kind = "Panic" -> Panic
          [] l.kind = "Ok"    -> [kind |-> "Ok", pinstr |-> [p |-> p, label |-> l.label]]
          [] l.kind = "Err"   ->
                IF i.kind = "Ok" THEN [kind |-> "Ok", pinstr |-> PI(i.instr)]
                ELSE i

PInstrFromStr(s) ==
    LET split == split_whitespace(s)
    IN  IF split = <<>> THEN Panic
        ELSE IF split[1] = <<"p", "u", "s", "h">>
             THEN IF Len(split) < 2 THEN Panic
                  ELSE LabelOrInstr(s, split[2], "PPush")
             ELSE LabelOrInstr(s, split[1], "PLabel")

----------------------------------------------------------------------------
(* ToBytes: the binary encoding. *)

\* U32ToBytes with the bytes in little-endian order.
U32ToBytes_LittleEndian(u) ==
    <<u.lo % 256, u.lo \div 256, u.hi % 256, u.hi \div 256>>

U32ToBytes(u) == <<u.hi \div 256, u.hi % 256, u.lo \div 256, u.lo % 256>>

\* i32::to_be_bytes: the two's-complement bit pattern, big-endian.
I32ToBytes(i) ==
    IF i >= 0 THEN U32ToBytes(U32(i))
    ELSE LET w == (i + (-(I32Min + 1))) + 1
         IN  U32ToBytes([hi |-> Half \div 2 + w \div Half, lo |-> w % Half])

UnopToBytes(o) == <<0>>

BinopToBytes(b) ==
    CASE b = "Add" -> <<0>>
      [] b = "Mul" -> <<1>>
      [] b = "Sub" -> <<2>>
      [] b = "Div" -> <<3>>
      [] b = "Lt"  -> <<4>>
      [] b = "Eq"  -> <<5>>

ValToBytes(v) ==
    CASE v.tag = "Vunit"  -> <<0>>
      [] v.tag = "Vi32"   -> <<1>> \o I32ToBytes(v.i)
      [] v.tag = "Vbool"  -> IF v.b = TRUE THEN <<2>> ELSE <<3>>
      [] v.tag = "Vloc"   -> <<4>> \o U32ToBytes(v.u)
      [] v.tag = "Vundef" -> <<5>>
      [] v.tag = "Vsize"  -> <<17>>
      [] v.tag = "Vaddr"  -> <<17>>

InstrToBytes(i) ==
    CASE i.op = "Push"     -> <<0>> \o ValToBytes(i.v)
      [] i.op = "Pop"      -> <<1>>
      [] i.op = "Peek"     -> <<2>> \o U32ToBytes(i.u)
      [] i.op = "Unary"    -> <<3>> \o UnopToBytes(i.unop)
      [] i.op = "Binary"   -> <<4>> \o BinopToBytes(i.binop)
      [] i.op = "Swap"     -> <<5>>
      [] i.op = "Alloc"    -> <<6>>
      [] i.op = "Set"      -> <<7>>
      [] i.op = "Get"      -> <<8>>
      [] i.op = "Var"      -> <<9>> \o U32ToBytes(i.u)
      [] i.op = "Store"    -> <<10>> \o U32ToBytes(i.u)
      [] i.op = "SetFrame" -> <<11>> \o U32ToBytes(i.u)
      [] i.op = "Call"     -> <<12>>
      [] i.op = "Ret"      -> <<13>>
      [] i.op = "Branch"   -> <<14>>
      [] i.op = "Halt"     -> <<15>>

----------------------------------------------------------------------------
(* The assembler. *)

\* Insert keeping the value of an existing key.
Insert_KeepFirst(labels, k, v) ==
    [x \in (DOMAIN labels) \cup {k} |->
        IF x \in DOMAIN labels THEN labels[x] ELSE v]

\* HashMap::insert: the value of an existing key is overwritten.
Insert(labels, k, v) ==
    [x \in (DOMAIN labels) \cup {k} |-> IF x = k THEN v ELSE labels[x]]

\* The first loop of assemble, from element k on: the label table and the
\* program counter after the whole input.
RECURSIVE Pass1(_, _, _, _)
Pass1(pinstrs, k, pc, labels) ==
    IF k > Len(pinstrs) THEN [pc |-> pc, labels |-> labels]
    ELSE IF pinstrs[k].p = "PLabel"
         THEN LET string   == to_string(DisplayPInstr(pinstrs[k])).text
                  last_off == SubSeq(string, 1, Len(string) - 1)
              IN  Pass1(pinstrs, k + 1, pc, Insert(labels, last_off, pc))
         ELSE Pass1(pinstrs, k + 1, pc + 1, labels)

\* Pass2 emitting a push of the undefined value for a label it cannot find.
RECURSIVE Pass2_KeepUndefined(_, _, _, _)
Pass2_KeepUndefined(pinstrs, k, labels, assembled_inp) ==
    IF k > Len(pinstrs) THEN assembled_inp
    ELSE LET i == pinstrs[k]
         IN  CASE i.p = "PPush" ->
                    Pass2_KeepUndefined(pinstrs, k + 1, labels,
                        Append(assembled_inp,
                               IF i.label \in DOMAIN labels
                               THEN Push(Vloc(U32(labels[i.label])))
                               ELSE Push(Vundef)))
               [] i.p = "PI" ->
                    Pass2_KeepUndefined(pinstrs, k + 1, labels,
                                        Append(assembled_inp, i.instr))
               [] OTHER -> Pass2_KeepUndefined(pinstrs, k + 1, labels, assembled_inp)

\* The second loop of assemble, from element k on: the instructions pushed
\* onto assembled_inp.
RECURSIVE Pass2(_, _, _, _)
Pass2(pinstrs, k, labels, assembled_inp) ==
    IF k > Len(pinstrs) THEN assembled_inp
    ELSE LET i == pinstrs[k]
         IN  CASE i.p = "PPush" ->
                    IF i.label \in DOMAIN labels
                    THEN Pass2(pinstrs, k + 1, labels,
                               Append(assembled_inp, Push(Vloc(U32(labels[i.label])))))
                    ELSE Pass2(pinstrs, k + 1, labels, assembled_inp)
               [] i.p = "PI" ->
                    Pass2(pinstrs, k + 1, labels, Append(assembled_inp, i.instr))
               [] OTHER -> Pass2(pinstrs, k + 1, labels, assembled_inp)

assemble(pinstrs) ==
    LET p1    == Pass1(pinstrs, 1, 0, <<>>)
        body  == Pass2(pinstrs, 1, p1.labels, <<>>)
        count == p1.pc
    IN  [kind |-> "Ok", instrs |-> Append(body, Push(Vloc(U32(count))))]

----------------------------------------------------------------------------
(* State. *)

VARIABLES
    \* assemble called on a program of pseudo-instructions
    prog,           \* the argument pinstrs
    asm_pc,         \* "start" before the call, "done" after it
    asm_res,        \* the Result that assemble returned
    \* rendering, re-parsing and encoding one value
    subject,        \* a native instruction or a pseudo-instruction
    isa_pc,         \* "start", "rendered", "reparsed" or "encoded"
    text,           \* the result of to_string
    back,           \* the result of from_str on that text
    bytes,          \* the result of to_bytes
    \* parsing one line of text
    line,           \* the text
    parse_pc,       \* "start", "pinstr" or "instr"
    parsed,         \* the result of PInstr::from_str or of Instr::from_str
    \* one run of the command-line program
    lines,          \* the lines of the input file
    main_pc,        \* the position in main
    ri,             \* the number of input lines consumed
    inp,            \* Vec<PInstr> parsed so far
    assembled_inp,  \* Vec<Instr> returned by assemble
    wi,             \* the number of instructions written to the file
    pc,             \* the local pc of main: the entry program counter
    outfile,        \* the output file: whether it exists, and its bytes
    written,        \* every byte this run has written, in order
    opened,         \* whether this run has opened the output file
    asm_called,     \* whether this run has called assemble
    status          \* the exit status, "running" until the process ends

asm_vars == <<prog, asm_pc, asm_res>>

isa_vars == <<subject, isa_pc, text, back, bytes>>

parse_vars == <<line, parse_pc, parsed>>

main_vars == <<lines, main_pc, ri, inp, assembled_inp, wi, pc, outfile,
               written, opened, asm_called, status>>

vars == <<asm_vars, isa_vars, parse_vars, main_vars>>

None == [kind |-> "None"]

\* Sequences over S of length at most n.
SeqsUpTo(S, n) == UNION {[1..k -> S] : k \in 0..n}

AsmIdle == prog = <<>> /\ asm_pc = "idle" /\ asm_res = None

IsaIdle == subject = None /\ isa_pc = "idle" /\ text = None /\ back = None
           /\ bytes = <<>>

ParseIdle == line = <<>> /\ parse_pc = "idle" /\ parsed = None

MainIdle == lines = <<>> /\ main_pc = "idle" /\ ri = 0 /\ inp = <<>>
            /\ assembled_inp = <<>> /\ wi = 0 /\ pc = U32Zero
            /\ outfile = [exists |-> FALSE, data |-> <<>>] /\ written = <<>>
            /\ opened = FALSE /\ asm_called = FALSE /\ status = "running"

----------------------------------------------------------------------------
(* assemble applied to every program of at most MaxProg elements over a    *)
(* small alphabet: two labels, defined or used, and two native             *)
(* instructions.                                                           *)

L1 == <<"L", "1">>

L2 == <<"L", "2">>

AsmAlphabet == {PLabel(L1), PLabel(L2), PPush(L1), PPush(L2),
                PI(Halt), PI(Push(Vi32(1)))}

AsmInit == /\ prog \in SeqsUpTo(AsmAlphabet, MaxProg)
           /\ asm_pc = "start"
           /\ asm_res = None
           /\ IsaIdle /\ ParseIdle /\ MainIdle

Assemble == /\ asm_pc = "start"
            /\ asm_res' = assemble(prog)
            /\ asm_pc' = "done"
            /\ UNCHANGED <<prog, isa_vars, parse_vars, main_vars>>

AsmNext == Assemble

SpecAsm == AsmInit /\ [][AsmNext]_vars

----------------------------------------------------------------------------
(* Properties of assemble, stated on the input program and the output.     *)

\* The output of the finished call and its part before the last element.
AsmOut == asm_res.instrs

AsmBody == SubSeq(AsmOut, 1, Len(AsmOut) - 1)

\* The positions of prog that define the label l.
DefsOf(l) == {d \in 1..Len(prog) : prog[d] = PLabel(l)}

\* The number of elements before position j that are not label definitions.
NonLabelsBefore(j) == Cardinality({i \in 1..(j - 1) : prog[i].p # "PLabel"})

NonLabelCount == NonLabelsBefore(Len(prog) + 1)

\* A push-label whose name no element of the program defines.
UndefinedUse(j) == prog[j].p = "PPush" /\ DefsOf(prog[j].label) = {}

\* The elements for which an instruction is emitted, and the (one-based)
\* place in the output of the instruction emitted for element j.
Emits(j) == prog[j].p = "PI" \/ (prog[j].p = "PPush" /\ ~UndefinedUse(j))

OutPos(j) == Cardinality({i \in 1..(j - 1) : Emits(i)}) + 1

SetMax(S) == CHOOSE m \in S : \A x \in S : x <= m

SetMin(S) == CHOOSE m \in S : \A x \in S : m <= x

\* C1 (as claimed): the output of assemble has one element more than the
\* program has non-label elements, k, and its last element is Push(Vloc(k)).
C1_Sentinel ==
    asm_pc = "done" =>
        /\ asm_res.kind = "Ok"
        /\ Len(AsmOut) = NonLabelCount + 1
        /\ AsmOut[Len(AsmOut)] = Push(Vloc(U32(NonLabelCount)))

\* C2 (as claimed): a push of a label defined exactly once, before or after
\* the use, is emitted as Push(Vloc(a)), a being the zero-based place in the
\* output of the first instruction emitted for an element after the
\* definition.
C2_LabelResolution ==
    asm_pc = "done" =>
        \A u \in 1..Len(prog) :
            (prog[u].p = "PPush" /\ Cardinality(DefsOf(prog[u].label)) = 1) =>
                LET d == SetMin(DefsOf(prog[u].label))
                    F == {j \in (d + 1)..Len(prog) : Emits(j)}
                IN  F # {} =>
                        AsmOut[OutPos(u)] = Push(Vloc(U32(OutPos(SetMin(F)) - 1)))

\* C9: a label defined more than once does not make assemble fail, and every
\* push of it, wherever it stands, is emitted as Push(Vloc(a)), a being the
\* number of non-label elements before the last definition.
C9_LastDefinitionWins ==
    asm_pc = "done" =>
        /\ asm_res.kind = "Ok"
        /\ \A u \in 1..Len(prog) :
              (prog[u].p = "PPush" /\ Cardinality(DefsOf(prog[u].label)) > 1) =>
                  AsmOut[OutPos(u)] =
                      Push(Vloc(U32(NonLabelsBefore(SetMax(DefsOf(prog[u].label))))))

\* A label defined twice at different addresses, used before the last
\* definition, after the call.
C9_Witness ==
    /\ asm_pc = "done"
    /\ \E u, d1, d2 \in 1..Len(prog) :
          /\ prog[u].p = "PPush"
          /\ d1 < u /\ u < d2
          /\ {d1, d2} \subseteq DefsOf(prog[u].label)
          /\ NonLabelsBefore(d1) # NonLabelsBefore(d2)

\* C10: assemble always returns Ok; a push of a label that is defined nowhere
\* emits nothing, every other non-label element emits exactly one
\* instruction (a native instruction itself, a push-label a Push of a
\* location) and the emitted instructions keep the order of their elements.
C10_SilentDrop ==
    asm_pc = "done" =>
        /\ asm_res.kind = "Ok"
        /\ Len(AsmBody) = Cardinality({j \in 1..Len(prog) : Emits(j)})
        /\ Len(AsmBody) = NonLabelCount
                - Cardinality({j \in 1..Len(prog) : UndefinedUse(j)})
        /\ \A j \in 1..Len(prog) :
              /\ prog[j].p = "PI" => AsmBody[OutPos(j)] = prog[j].instr
              /\ (prog[j].p = "PPush" /\ ~UndefinedUse(j)) =>
                    /\ AsmBody[OutPos(j)].op = "Push"
                    /\ AsmBody[OutPos(j)].v.tag = "Vloc"

\* An undefined push-label followed by an element that emits, after the call.
C10_Witness ==
    /\ asm_pc = "done"
    /\ \E j, n \in 1..Len(prog) : UndefinedUse(j) /\ j < n /\ Emits(n)
    /\ Len(AsmOut) < NonLabelCount + 1

----------------------------------------------------------------------------
(* Rendering, re-parsing and encoding applied to sample values: every      *)
(* variant of Val, Instr and PInstr, with operands at the edges of their   *)
(* ranges.                                                                 *)

I32Samples == {0, 1, -1, 123, 700, -(I32Min + 1), I32Min}

U32Samples == {U32(0), U32(5), U32(45), U32(700), [hi |-> 1, lo |-> 0],
               U32(-(I32Min + 1)), [hi |-> Half \div 2, lo |-> 0],
               U32MaxValue}

ValSamples == {Vunit, Vundef, Vbool(TRUE), Vbool(FALSE), Vsize(1), Vaddr(1)}
              \cup {Vi32(i) : i \in I32Samples}
              \cup {Vloc(u) : u \in U32Samples}

InstrSamples == {Pop, Swap, Alloc, Set, Get, Call, Ret, Branch, Halt}
                \cup {Push(v) : v \in ValSamples}
                \cup {Unary(o) : o \in Unops}
                \cup {Binary(b) : b \in Binops}
                \cup {Peek(u) : u \in U32Samples}
                \cup {Var(u) : u \in U32Samples}
                \cup {Store(u) : u \in U32Samples}
                \cup {SetFrame(u) : u \in U32Samples}

\* Labels that obey the label-character rule, and strings that do not.
LabelSamples == {<<"L">>, <<"L", "1">>, <<"L", "t", "e", "s", "t">>,
                 <<"_", "L">>, <<"_", "L", "a", "9">>}

NonLabelSamples == {<<"x">>, <<"5">>, <<"L", "_">>, <<"L", "1", ":">>}

PInstrSamples == {PI(i) : i \in InstrSamples}
                 \cup {PLabel(l) : l \in LabelSamples \cup NonLabelSamples}
                 \cup {PPush(l) : l \in LabelSamples \cup NonLabelSamples}

Subjects == {[ty |-> "Instr", instr |-> i] : i \in InstrSamples}
            \cup {[ty |-> "PInstr", pinstr |-> q] : q \in PInstrSamples}

IsaInit == /\ subject \in Subjects
           /\ isa_pc = "start"
           /\ text = None /\ back = None /\ bytes = <<>>
           /\ AsmIdle /\ ParseIdle /\ MainIdle

\* subject.to_string()
Render == /\ isa_pc = "start"
          /\ text' = IF subject.ty = "Instr"
                     THEN to_string(DisplayInstr(subject.instr))
                     ELSE to_string(DisplayPInstr(subject.pinstr))
          /\ isa_pc' = "rendered"
          /\ UNCHANGED <<subject, back, bytes, asm_vars, parse_vars, main_vars>>

\* text.parse(), at the type of the subject
Reparse == /\ isa_pc = "rendered"
           /\ text.kind = "Ok"
           /\ back' = IF subject.ty = "Instr" THEN InstrFromStr(text.text)
                      ELSE PInstrFromStr(text.text)
           /\ isa_pc' = "reparsed"
           /\ UNCHANGED <<subject, text, bytes, asm_vars, parse_vars, main_vars>>

\* Instr::to_bytes(&subject)
Encode == /\ isa_pc = "start"
          /\ subject.ty = "Instr"
          /\ bytes' = InstrToBytes(subject.instr)
          /\ isa_pc' = "encoded"
          /\ UNCHANGED <<subject, text, back, asm_vars, parse_vars, main_vars>>

IsaNext == Render \/ Reparse \/ Encode

SpecIsa == IsaInit /\ [][IsaNext]_vars

----------------------------------------------------------------------------
(* Properties of rendering, parsing back and encoding.                     *)

\* The label-character rule: the first character is L, or the label begins
\* with _L; every remaining character is an ASCII letter or digit.
LabelRule(l) ==
    /\ Len(l) >= 1
    /\ l[1] = "L" \/ (Len(l) >= 2 /\ l[1] = "_" /\ l[2] = "L")
    /\ \A k \in 2..Len(l) : is_ascii_alphanumeric(l[k])

\* What parsing the text of the subject has to return for a round trip.
RoundTripped ==
    IF subject.ty = "Instr" THEN [kind |-> "Ok", instr |-> subject.instr]
    ELSE [kind |-> "Ok", pinstr |-> subject.pinstr]

\* C3 (as claimed): every native instruction and every pseudo-instruction
\* renders to a text that parses back to an equal value.
C3_RoundTripAll ==
    /\ isa_pc = "rendered" => text.kind = "Ok"
    /\ isa_pc = "reparsed" => back = RoundTripped

\* The native instructions whose text denotes them: not a Push of a location
\* that fits a signed 32-bit integer (its digits read back as a Vi32), and
\* not a Push of an internal value Vsize or Vaddr (which has no text).
Renderable(i) ==
    i.op = "Push" =>
        /\ i.v.tag \notin {"Vsize", "Vaddr"}
        /\ i.v.tag = "Vloc" => i.v.u.hi >= Half \div 2

RoundTripCovered ==
    IF subject.ty = "Instr" THEN Renderable(subject.instr)
    ELSE IF subject.pinstr.p = "PI" THEN Renderable(subject.pinstr.instr)
    ELSE LabelRule(subject.pinstr.label)

\* C3 (amended): the round trip holds for every native instruction except a
\* Push of a location below 2^31 or of an internal value, and for every
\* pseudo-instruction made of such an instruction or of a label that obeys
\* the label-character rule.
C3_RoundTrip ==
    RoundTripCovered =>
        /\ isa_pc = "rendered" => text.kind = "Ok"
        /\ isa_pc = "reparsed" => back = RoundTripped

\* A pushed location of 2^31, as a pseudo-instruction, rendered and parsed
\* back.
C3_Witness ==
    /\ isa_pc = "reparsed"
    /\ subject = [ty |-> "PInstr",
                  pinstr |-> PI(Push(Vloc([hi |-> Half \div 2, lo |-> 0])))]
    /\ text.text = <<"p", "u", "s", "h", " ",
                     "2", "1", "4", "7", "4", "8", "3", "6", "4", "8">>
    /\ back.kind = "Ok"

OpcodeTable ==
    [Push |-> 0, Pop |-> 1, Peek |-> 2, Unary |-> 3, Binary |-> 4, Swap |-> 5,
     Alloc |-> 6, Set |-> 7, Get |-> 8, Var |-> 9, Store |-> 10,
     SetFrame |-> 11, Call |-> 12, Ret |-> 13, Branch |-> 14, Halt |-> 15]

BinopTable == [Add |-> 0, Mul |-> 1, Sub |-> 2, Div |-> 3, Lt |-> 4, Eq |-> 5]

\* The u32 that four bytes denote, most significant byte first.
FromBE(b) == [hi |-> b[1] * 256 + b[2], lo |-> b[3] * 256 + b[4]]

\* The i32 whose two's-complement bit pattern is the u32 p.
AsSigned(p) == IF p.hi < Half \div 2 THEN p.hi * Half + p.lo
               ELSE ((p.hi - Half \div 2) * Half + p.lo) + I32Min

\* The encoding of a pushed value, for the values of the value table.
ValEncoded(v, b) ==
    CASE v.tag = "Vunit"  -> b = <<0>>
      [] v.tag = "Vi32"   -> Len(b) = 5 /\ b[1] = 1 /\ AsSigned(FromBE(Tail(b))) = v.i
      [] v.tag = "Vbool"  -> b = IF v.b THEN <<2>> ELSE <<3>>
      [] v.tag = "Vloc"   -> Len(b) = 5 /\ b[1] = 4 /\ FromBE(Tail(b)) = v.u
      [] v.tag = "Vundef" -> b = <<5>>
      [] OTHER            -> TRUE

\* C6: to_bytes of a native instruction is its opcode byte from the table,
\* followed by nothing for an instruction without operand, by the 4
\* big-endian bytes of the offset of peek, var, store and setframe, by one
\* operator byte for unary and binary, and by the value encoding for push.
C6_EncodingTable ==
    isa_pc = "encoded" =>
        LET i       == subject.instr
            operand == Tail(bytes)
        IN  /\ \A k \in 1..Len(bytes) : bytes[k] \in 0..255
            /\ bytes[1] = OpcodeTable[i.op]
            /\ CASE i.op \in {"Peek", "Var", "Store", "SetFrame"} ->
                        Len(operand) = 4 /\ FromBE(operand) = i.u
                 [] i.op = "Unary"  -> operand = <<0>>
                 [] i.op = "Binary" -> operand = <<BinopTable[i.binop]>>
                 [] i.op = "Push"   -> ValEncoded(i.v, operand)
                 [] OTHER           -> operand = <<>>

\* push 700 encoded: 00 01 00 00 02 BC.
C6_Witness ==
    /\ isa_pc = "encoded"
    /\ subject.instr = Push(Vi32(700))
    /\ bytes = <<0, 1, 0, 0, 2, 188>>

----------------------------------------------------------------------------
(* PInstr::from_str and Instr::from_str applied to sample lines.          *)

\* Lines of the grammar: every mnemonic, values of every kind, labels.
WellFormedLines ==
    {<<"p", "u", "s", "h", " ", "1">>,
     <<"p", "u", "s", "h", " ", "-", "5">>,
     <<"p", "u", "s", "h", " ", "t", "t">>,
     <<"p", "u", "s", "h", " ", "u", "n", "d", "e", "f">>,
     <<"p", "u", "s", "h", " ", "t", "r", "u", "e">>,
     <<"p", "u", "s", "h", " ", "f", "a", "l", "s", "e">>,
     <<"p", "u", "s", "h", " ", "4", "2", "9", "4", "9", "6", "7", "2", "9", "5">>,
     <<"p", "u", "s", "h", " ", "2", "1", "4", "7", "4", "8", "3", "6", "4", "8">>,
     <<"p", "u", "s", "h", " ", "L", "1">>,
     <<"p", "u", "s", "h", " ", "_", "L", "1">>,
     <<"L", "1", ":">>,
     <<"_", "L", "f", "o", "o", ":">>,
     <<"L", ":">>,
     <<"p", "o", "p">>,
     <<"p", "e", "e", "k", " ", "3">>,
     <<"u", "n", "a", "r", "y", " ", "n", "e", "g">>,
     <<"b", "i", "n", "a", "r", "y", " ", "+">>,
     <<"b", "i", "n", "a", "r", "y", " ", "=", "=">>,
     <<"b", "i", "n", "a", "r", "y", " ", "<">>,
     <<"s", "w", "a", "p">>,
     <<"a", "l", "l", "o", "c">>,
     <<"s", "e", "t">>,
     <<"g", "e", "t">>,
     <<"v", "a", "r", " ", "2">>,
     <<"s", "t", "o", "r", "e", " ", "0">>,
     <<"s", "e", "t", "f", "r", "a", "m", "e", " ", "4">>,
     <<"c", "a", "l", "l">>,
     <<"r", "e", "t">>,
     <<"b", "r", "a", "n", "c", "h">>,
     <<"h", "a", "l", "t">>,
     <<" ", " ", "h", "a", "l", "t", " ">>,
     <<"\t", "p", "o", "p">>}

\* Lines outside the grammar: an unknown mnemonic, a missing operand, an
\* operand of the wrong type, a malformed label, an empty line.
GrammarViolations ==
    {<<"f", "o", "o">>,
     <<"p", "u", "s", "h">>,
     <<"p", "e", "e", "k">>,
     <<"u", "n", "a", "r", "y">>,
     <<"b", "i", "n", "a", "r", "y">>,
     <<"v", "a", "r">>,
     <<"s", "t", "o", "r", "e">>,
     <<"s", "e", "t", "f", "r", "a", "m", "e">>,
     <<"p", "u", "s", "h", " ", "x", "y", "z">>,
     <<"p", "u", "s", "h", " ", "4", "2", "9", "4", "9", "6", "7", "2", "9", "6">>,
     <<"p", "e", "e", "k", " ", "x">>,
     <<"p", "e", "e", "k", " ", "-", "1">>,
     <<"v", "a", "r", " ", "1", "x">>,
     <<"s", "t", "o", "r", "e", " ", "L", "1">>,
     <<"s", "e", "t", "f", "r", "a", "m", "e", " ", "t", "t">>,
     <<"u", "n", "a", "r", "y", " ", "f", "o", "o">>,
     <<"b", "i", "n", "a", "r", "y", " ", "%">>,
     <<"_">>,
     <<>>}

\* Further lines: bare labels, colons out of place, extra tokens, blanks.
OddLines ==
    {<<"L", "1">>,
     <<"_", "L">>,
     <<"L", "1", " ", "p", "o", "p">>,
     <<"p", "u", "s", "h", " ", "L", "1", ":">>,
     <<"p", "u", "s", "h", " ", "_">>,
     <<"L", "1", ";">>,
     <<"L", "a", "b", ":", "c", ":">>,
     <<"_", "x", ":">>,
     <<"1", "L", ":">>,
     <<"L", "1", ":", " ", "h", "a", "l", "t">>,
     <<"h", "a", "l", "t", " ", "h", "a", "l", "t">>,
     <<"p", "o", "p", " ", "3">>,
     <<" ", " ", " ">>}

SampleLines == WellFormedLines \cup GrammarViolations \cup OddLines

ParseInit == /\ line \in SampleLines
             /\ parse_pc = "start"
             /\ parsed = None
             /\ AsmIdle /\ IsaIdle /\ MainIdle

\* PInstr::from_str(&line)
ParsePInstr == /\ parse_pc = "start"
               /\ parsed' = PInstrFromStr(line)
               /\ parse_pc' = "pinstr"
               /\ UNCHANGED <<line, asm_vars, isa_vars, main_vars>>

\* Instr::from_str(&line)
ParseInstr == /\ parse_pc = "start"
              /\ parsed' = InstrFromStr(line)
              /\ parse_pc' = "instr"
              /\ UNCHANGED <<line, asm_vars, isa_vars, main_vars>>

ParseNext == ParsePInstr \/ ParseInstr

SpecParse == ParseInit /\ [][ParseNext]_vars

\* C4 (as claimed): a line that violates the grammar makes PInstr::from_str
\* and Instr::from_str return a ParseError; no line makes the parser crash.
C4_ParseErrors ==
    parse_pc \in {"pinstr", "instr"} =>
        /\ parsed.kind # "Panic"
        /\ line \in GrammarViolations => parsed.kind = "Err"

\* The first token of the line is a label obeying the label-character rule
\* followed by a colon.
IsLabelDefinition(s) ==
    LET split == split_whitespace(s)
    IN  /\ split # <<>>
        /\ split[1][Len(split[1])] = ":"
        /\ LabelRule(SubSeq(split[1], 1, Len(split[1]) - 1))

\* C8 (as claimed): PInstr::from_str returns PLabel(name) exactly when the
\* first token of the line is name followed by a colon and name obeys the
\* label-character rule; any other line is never made a label definition.
C8_LabelDefinition ==
    parse_pc = "pinstr" =>
        IF IsLabelDefinition(line)
        THEN LET tok == split_whitespace(line)[1]
             IN  parsed = [kind |-> "Ok",
                           pinstr |-> PLabel(SubSeq(tok, 1, Len(tok) - 1))]
        ELSE ~(parsed.kind = "Ok" /\ parsed.pinstr.p = "PLabel")

----------------------------------------------------------------------------
(* The command-line program: main, run on an input file of at most         *)
(* MaxLines lines.                                                         *)

\* The lines an input file is made of: native instructions, a label
\* definition, uses of a defined and of an undefined label, a bare label,
\* a line that is a parse error and a line on which the parser panics.
MainLines ==
    {<<"p", "u", "s", "h", " ", "1">>,
     <<"h", "a", "l", "t">>,
     <<"L", "1", ":">>,
     <<"p", "u", "s", "h", " ", "L", "1">>,
     <<"p", "u", "s", "h", " ", "L", "2">>,
     <<"L", "1">>,
     <<"f", "o", "o">>,
     <<"u", "n", "a", "r", "y">>}

\* The output file before the run: absent, or left over from an earlier run.
NoFile == [exists |-> FALSE, data |-> <<>>]

OldFile == [exists |-> TRUE, data |-> <<255, 255, 255, 255, 255, 255, 255, 255>>]

MainInit == /\ lines \in SeqsUpTo(MainLines, MaxLines)
            /\ main_pc = "read"
            /\ ri = 0 /\ inp = <<>> /\ assembled_inp = <<>> /\ wi = 0
            /\ pc = U32Zero
            /\ outfile \in {NoFile, OldFile}
            /\ written = <<>>
            /\ opened = FALSE /\ asm_called = FALSE
            /\ status = "running"
            /\ AsmIdle /\ IsaIdle /\ ParseIdle

\* The process ends with exit status code.
ExitWith(code) == main_pc' = "exit" /\ status' = code

\* Write::write on a file opened without truncation: data replaces the bytes
\* of the file from offset on and extends the file where it is shorter.
WriteAt(file, offset, data) ==
    LET n == IF Len(file.data) > offset + Len(data) THEN Len(file.data)
             ELSE offset + Len(data)
    IN  [exists |-> TRUE,
         data |-> [k \in 1..n |-> IF k > offset /\ k <= offset + Len(data)
                                  THEN data[k - offset] ELSE file.data[k]]]

\* ReadLine going on to the next line after a parse error.
ReadLine_SkipErrors ==
    /\ main_pc = "read"
    /\ ri < Len(lines)
    /\ LET r == PInstrFromStr(lines[ri + 1])
       IN  CASE r.kind = "Ok" ->
                    /\ inp' = Append(inp, r.pinstr)
                    /\ ri' = ri + 1
                    /\ UNCHANGED <<main_pc, status>>
             [] r.kind = "Err" ->
                    /\ ri' = ri + 1
                    /\ UNCHANGED <<inp, main_pc, status>>
             [] r.kind = "Panic" -> ExitWith(101) /\ UNCHANGED <<inp, ri>>
    /\ UNCHANGED <<lines, assembled_inp, wi, pc, outfile, written, opened,
                   asm_called, asm_vars, isa_vars, parse_vars>>

\* One iteration of the loop over reader.lines(): inp.push(from_str(&line?)?).
\* A parse error makes main return Err (exit status 1); a panic ends the
\* process with status 101.
ReadLine ==
    /\ main_pc = "read"
    /\ ri < Len(lines)
    /\ LET r == PInstrFromStr(lines[ri + 1])
       IN  CASE r.kind = "Ok" ->
                    /\ inp' = Append(inp, r.pinstr)
                    /\ ri' = ri + 1
                    /\ UNCHANGED <<main_pc, status>>
             [] r.kind = "Err" -> ExitWith(1) /\ UNCHANGED <<inp, ri>>
             [] r.kind = "Panic" -> ExitWith(101) /\ UNCHANGED <<inp, ri>>
    /\ UNCHANGED <<lines, assembled_inp, wi, pc, outfile, written, opened,
                   asm_called, asm_vars, isa_vars, parse_vars>>

\* match assemble::assemble(&inp), after the last line.
CallAssemble ==
    /\ main_pc = "read"
    /\ ri = Len(lines)
    /\ asm_called' = TRUE
    /\ LET r == assemble(inp)
       IN  IF r.kind = "Ok"
           THEN /\ assembled_inp' = r.instrs
                /\ main_pc' = "open"
                /\ UNCHANGED status
           ELSE ExitWith(1) /\ UNCHANGED assembled_inp
    /\ UNCHANGED <<lines, ri, inp, wi, pc, outfile, written, opened,
                   asm_vars, isa_vars, parse_vars>>

\* OpenOptions::new().write(true).create(true).open(..): the file is created
\* when absent and keeps its bytes when present.
OpenOutput ==
    /\ main_pc = "open"
    /\ outfile' = [outfile EXCEPT !.exists = TRUE]
    /\ opened' = TRUE
    /\ main_pc' = "entry"
    /\ UNCHANGED <<lines, ri, inp, assembled_inp, wi, pc, written, asm_called,
                   status, asm_vars, isa_vars, parse_vars>>

\* The same open failing: expect("Error creating output file") panics.
OpenOutputFails ==
    /\ main_pc = "open"
    /\ ExitWith(101)
    /\ UNCHANGED <<lines, ri, inp, assembled_inp, wi, pc, outfile, written,
                   opened, asm_called, asm_vars, isa_vars, parse_vars>>

\* The loop that reads pc out of the last element, and assembled_inp.pop().
TakeEntry ==
    /\ main_pc = "entry"
    /\ LET n    == Len(assembled_inp)
           last == assembled_inp[n]
       IN  /\ pc' = IF n > 0 /\ last.op = "Push" /\ last.v.tag = "Vloc"
                    THEN last.v.u ELSE pc
           /\ assembled_inp' = SubSeq(assembled_inp, 1, n - 1)
    /\ main_pc' = "header"
    /\ UNCHANGED <<lines, ri, inp, wi, outfile, written, opened, asm_called,
                   status, asm_vars, isa_vars, parse_vars>>

\* buffer.write(&pc.to_be_bytes())
WriteHeader ==
    /\ main_pc = "header"
    /\ outfile' = WriteAt(outfile, Len(written), U32ToBytes(pc))
    /\ written' = written \o U32ToBytes(pc)
    /\ main_pc' = "body"
    /\ UNCHANGED <<lines, ri, inp, assembled_inp, wi, pc, opened, asm_called,
                   status, asm_vars, isa_vars, parse_vars>>

\* One iteration of the loop over assembled_inp: buffer.write(&to_bytes(&i)).
WriteInstr ==
    /\ main_pc = "body"
    /\ wi < Len(assembled_inp)
    /\ LET data == InstrToBytes(assembled_inp[wi + 1])
       IN  /\ outfile' = WriteAt(outfile, Len(written), data)
           /\ written' = written \o data
    /\ wi' = wi + 1
    /\ UNCHANGED <<lines, main_pc, ri, inp, assembled_inp, pc, opened,
                   asm_called, status, asm_vars, isa_vars, parse_vars>>

\* std::process::exit(0), after the last instruction.
ExitOk ==
    /\ main_pc = "body"
    /\ wi = Len(assembled_inp)
    /\ ExitWith(0)
    /\ UNCHANGED <<lines, ri, inp, assembled_inp, wi, pc, outfile, written,
                   opened, asm_called, asm_vars, isa_vars, parse_vars>>

MainNext == \/ ReadLine \/ CallAssemble \/ OpenOutput \/ OpenOutputFails
            \/ TakeEntry \/ WriteHeader \/ WriteInstr \/ ExitOk

SpecMain == MainInit /\ [][MainNext]_vars

----------------------------------------------------------------------------
(* Properties of the command-line program.                                 *)

\* The concatenation of the encodings of a sequence of instructions.
RECURSIVE EncodeAll(_)
EncodeAll(is) ==
    IF is = <<>> THEN <<>> ELSE InstrToBytes(Head(is)) \o EncodeAll(Tail(is))

\* C5 (as claimed): after a successful run the bytes written are the 4
\* big-endian bytes of the payload of the assembler's trailing sentinel,
\* then the encodings of the other emitted instructions in order, and
\* nothing else; the header value is the number of instructions in the body.
C5_ImageFormat ==
    (main_pc = "exit" /\ status = 0) =>
        LET out   == assemble(inp).instrs
            body  == SubSeq(out, 1, Len(out) - 1)
            entry == out[Len(out)].v.u
        IN  /\ written = U32ToBytes(entry) \o EncodeAll(body)
            /\ entry = U32(Len(body))

\* Some line of the input file does not parse.
BadLine == \E k \in 1..Len(lines) : PInstrFromStr(lines[k]).kind # "Ok"

\* C7: in a run whose input has a line that fails to parse, the output file
\* is never created, opened or written and the assembler is never called;
\* the run only reads lines until it ends, and it ends with a non-zero
\* status. The output file is opened only after every line has parsed.
C7_NoPartialOutput ==
    /\ BadLine =>
          /\ ~opened /\ ~asm_called
          /\ written = <<>> /\ outfile \in {NoFile, OldFile}
          /\ main_pc = "read" \/ (main_pc = "exit" /\ status # 0)
          /\ main_pc = "read" => ri < Len(lines)
    /\ opened => (~BadLine /\ Len(inp) = Len(lines))

\* A run ended by a parse error on its third line, after two good lines.
C7_Witness ==
    /\ main_pc = "exit" /\ status = 1
    /\ ri = 2 /\ Len(inp) = 2
    /\ PInstrFromStr(lines[3]).kind = "Err"
    /\ outfile = NoFile

====
